---- MODULE Spec2Model ----
(***************************************************************************)
(* Chunk streaming of apps/pc/src/world/chunk: the ChunkManager resource,  *)
(* the chunk entities of the ECS world, and the two per-frame systems that *)
(* load and unload chunks (chunk_loading_system and                        *)
(* ChunkLoaderSystem::process_chunk_loading).                              *)
(*                                                                         *)
(* Conventions                                                             *)
(*  - a ChunkCoord is the tuple <<x, y>>;                                   *)
(*  - an Option is a sequence of length at most one: << >> is None and     *)
(*    <<v>> is Some(v);                                                    *)
(*  - time (Time::elapsed_secs_f64) is counted in whole seconds;           *)
(*  - an Entity is a natural number, allocated in spawn order.             *)
(***************************************************************************)
EXTENDS Integers, Sequences, FiniteSets, TLC

VARIABLES
    chunks,          \* ChunkManager.chunks : coord -> Entity
    entities,        \* the chunk entities alive in the world: Entity -> Chunk
    loading_queue,   \* ChunkManager.loading_queue
    player_chunk,    \* ChunkManager.player_chunk (Option<ChunkCoord>)
    view_distance,   \* ChunkManager.view_distance
    memory_budget,   \* ChunkManager.memory_budget
    load_budget,     \* ChunkManager.load_budget
    last_cleanup,    \* ChunkManager.last_cleanup
    now,             \* Time::elapsed_secs_f64 of the host
    next_entity,     \* the id the next spawn returns
    loads,           \* futures made by load_chunk_data: [coord, entity]
    saves,           \* futures made by save_chunk_data: coord
    files,           \* coords whose file chunks/{x}_{y}.dat exists
    panicked,        \* a system has panicked (the app is gone)
    edited,          \* a ChunkData a caller holds and edits (Option)
    water_manager,   \* a WaterManager (Option)
    vegetation_system, \* a vegetation System (Option)
    climate_system,  \* a climate System (Option)
    map_rules,       \* a MapRules (Option)
    map_generator,   \* a MapGenerator (Option)
    map_manager,     \* the MapManager resource (Option)
    calls            \* the calls made on the map subsystems, with results

vars == <<chunks, entities, loading_queue, player_chunk, view_distance,
          memory_budget, load_budget, last_cleanup, now, next_entity,
          loads, saves, files, panicked, edited, water_manager,
          vegetation_system, climate_system, map_rules, map_generator,
          map_manager,
          calls>>

(* The state of the map subsystems, with the calls made on them.           *)
map_vars == <<water_manager, vegetation_system, climate_system, map_rules,
              map_generator, map_manager, calls>>

(* The state of the chunk streaming.                                       *)
chunk_vars == <<chunks, entities, loading_queue, player_chunk, view_distance,
                memory_budget, load_budget, last_cleanup, now, next_entity,
                loads, saves, files, panicked>>

----------------------------------------------------------------------------
(* Bounds of the model                                                     *)

MaxQueue == 2
MaxEntity == 12
MaxStarted == 2

(* Inputs the host can provide                                             *)

FrameTimes == {5, 6, 36}
WorldXs == {0, 1500}
WorldYs == {0}
QueueCoords == {<<0, 0>>, <<3, 0>>}
ViewDistances == {1}
MemoryBudgets == {1, 100}
EditCoords == {<<-1, 0>>}
LoadBudgets == {1, 2}
StoredFiles == {{}, {<<0, 0>>, <<3, 0>>}}
PriorityCoords == (0..3) \X (0..2)
LocalXs == {0, 31, 32}
LocalYs == {0, 32}
TileTypes == {1, 2}
HeightValues == {1, 2}
DecorationTypes == {1}

(* Inputs of the map subsystems.  Heights, slopes and the parameters that  *)
(* scale them are counted in tenths; a uniform draw of an RNG is a number  *)
(* of hundredths, 0..99.                                                   *)

MaxCalls == 2
WaterChunkSizes == {3}
HeightMaps ==
    {<<5, 5, 5, 5, 5, 5, 5, 5, 5>>,
     <<8, 5, 2, 8, 5, 2, 8, 5, 2>>,
     <<8, 8, 8, 1, 1, 1, 9, 0, 3>>}
WaterPositions == {<<0, 0>>, <<1, 1>>, <<1, 0>>}
Draws == {0, 50, 99}
Tapes == {<<a, b>> : a \in Draws, b \in Draws}

Seeds == {0, 42}
ScenePositions == {<<0, 0>>, <<3, 0>>, <<20, 0>>}
FixedScenes == {<<<<0, 0>>, "Temple">>}
SceneWeights == {<<"Village", 5>>}
Densities == {5, 20}
MinDistances == {-1, 10}

VegPositions == {<<0, 0>>, <<1, 0>>}
VegEnvironments == {<<40, 50, 60>>, <<95, 50, 50>>, <<65, 25, 30>>, <<40, 50, 95>>}
DensityFactors == {20, 50}

ClimatePositions == {<<0, 0>>, <<1, 0>>}
Seasons == {"Spring", "Summer", "Autumn", "Winter"}

(* Program constants                                                       *)

CHUNK_SIZE == 32
TILE_PIXELS == 32
max_chunks_per_frame == 5
CLEANUP_INTERVAL == 5
INACTIVE_LIMIT == 30

----------------------------------------------------------------------------
(* Helpers                                                                 *)

None == << >>
Some(v) == <<v>>

Abs(n) == IF n < 0 THEN -n ELSE n

Min(a, b) == IF a < b THEN a ELSE b

manhattan_distance(a, b) == Abs(a[1] - b[1]) + Abs(a[2] - b[2])

(* A Chunk component as process_loading_queue spawns it.                   *)
LoadingChunk(coord, t) ==
    [coord |-> coord, load_state |-> "Loading", data |-> None,
     last_accessed |-> t, priority |-> 0, chunk_data |-> FALSE]

(* A Chunk component as process_chunk_loading spawns it; the data is what  *)
(* generate_chunk_data returns (ChunkData::new sets modified to false).    *)
LoadedChunk(coord, t) ==
    [coord |-> coord, load_state |-> "Loaded",
     data |-> Some([modified |-> FALSE]),
     last_accessed |-> t, priority |-> 0, chunk_data |-> FALSE]

----------------------------------------------------------------------------
(* ChunkManager::get_chunks_to_load: the square of side 2*view_distance+1  *)
(* around the player, row by row (y outer, x inner), without the resident  *)
(* coordinates.                                                            *)

SquareSeq(pc, vd) ==
    [i \in 1..((2 * vd + 1) * (2 * vd + 1)) |->
        <<pc[1] - vd + ((i - 1) % (2 * vd + 1)),
          pc[2] - vd + ((i - 1) \div (2 * vd + 1))>>]

NotResident(c) == c \notin DOMAIN chunks

get_chunks_to_load ==
    IF player_chunk = None THEN << >>
    ELSE SelectSeq(SquareSeq(player_chunk[1], view_distance), NotResident)

(* An unload rule with hysteresis: only beyond twice the view distance.    *)
unload_beyond_twice(table) ==
    IF player_chunk = None THEN {}
    ELSE {c \in DOMAIN table :
            \/ Abs(c[1] - player_chunk[1][1]) > 2 * view_distance
            \/ Abs(c[2] - player_chunk[1][2]) > 2 * view_distance}

(* An unload rule that measures the distance as |dx| + |dy|.              *)
unload_by_manhattan(table) ==
    IF player_chunk = None THEN {}
    ELSE {c \in DOMAIN table :
            manhattan_distance(c, player_chunk[1]) > view_distance}

(* ChunkManager::get_chunks_to_unload, given the table to look at.         *)
get_chunks_to_unload(table) ==
    IF player_chunk = None THEN {}
    ELSE {c \in DOMAIN table :
            \/ Abs(c[1] - player_chunk[1][1]) > view_distance
            \/ Abs(c[2] - player_chunk[1][2]) > view_distance}

(* No limit on the candidates of one tick.                                 *)
TakeAll(s, n) == s

(* Iterator::take                                                          *)
Take(s, n) == SubSeq(s, 1, Min(n, Len(s)))

----------------------------------------------------------------------------
(* No map subsystem has been constructed.                                  *)
MapUnused ==
    /\ water_manager = None
    /\ vegetation_system = None
    /\ climate_system = None
    /\ map_rules = None
    /\ map_generator = None
    /\ map_manager = None
    /\ calls = << >>

Init ==
    /\ chunks = << >>
    /\ entities = << >>
    /\ loading_queue = << >>
    /\ player_chunk = None
    /\ view_distance \in ViewDistances
    /\ memory_budget \in MemoryBudgets
    /\ load_budget \in LoadBudgets
    /\ last_cleanup = 0
    /\ now = 0
    /\ next_entity = 1
    /\ loads = {}
    /\ saves = {}
    /\ files \in StoredFiles
    /\ panicked = FALSE
    /\ edited = None
    /\ MapUnused

(* The host's clock moves on to the time of a later frame.                 *)
Advance(t) ==
    /\ ~panicked
    /\ UNCHANGED <<edited, map_vars>>
    /\ t > now
    /\ now' = t
    /\ UNCHANGED <<chunks, entities, loading_queue, player_chunk,
                   view_distance, memory_budget, load_budget, last_cleanup,
                   next_entity, loads, saves, files, panicked>>

(* ChunkManager::update_player_position(world_x, world_y)                  *)
update_player_position(world_x, world_y) ==
    /\ ~panicked
    /\ UNCHANGED <<edited, map_vars>>
    /\ LET new_chunk == <<world_x \div (CHUNK_SIZE * TILE_PIXELS),
                          world_y \div (CHUNK_SIZE * TILE_PIXELS)>>
       IN player_chunk' = IF player_chunk # Some(new_chunk)
                          THEN Some(new_chunk) ELSE player_chunk
    /\ UNCHANGED <<chunks, entities, loading_queue, view_distance,
                   memory_budget, load_budget, last_cleanup, now,
                   next_entity, loads, saves, files, panicked>>

(* A caller pushes a coordinate on the public loading_queue.               *)
Enqueue(coord) ==
    /\ ~panicked
    /\ UNCHANGED <<edited, map_vars>>
    /\ Len(loading_queue) < MaxQueue
    /\ loading_queue' = Append(loading_queue, coord)
    /\ UNCHANGED <<chunks, entities, player_chunk, view_distance,
                   memory_budget, load_budget, last_cleanup, now,
                   next_entity, loads, saves, files, panicked>>

(* ChunkLoaderSystem::process_chunk_loading                                *)
process_chunk_loading ==
    /\ ~panicked
    /\ UNCHANGED <<edited, map_vars>>
    /\ LET to_process == Take(get_chunks_to_load, max_chunks_per_frame)
           n == Len(to_process)
           spawned == [e \in next_entity..(next_entity + n - 1) |->
                          LoadedChunk(to_process[e - next_entity + 1], now)]
           inserted == [c \in DOMAIN chunks \cup
                              {to_process[i] : i \in 1..n} |->
                          IF \E i \in 1..n : to_process[i] = c
                          THEN next_entity - 1 +
                               (CHOOSE i \in 1..n : to_process[i] = c)
                          ELSE chunks[c]]
           to_unload == get_chunks_to_unload(inserted)
           despawned == {inserted[c] : c \in to_unload}
           world == [e \in DOMAIN entities \cup DOMAIN spawned |->
                        IF e \in DOMAIN spawned THEN spawned[e]
                        ELSE entities[e]]
       IN /\ next_entity + n - 1 <= MaxEntity
          /\ next_entity' = next_entity + n
          /\ chunks' = [c \in DOMAIN inserted \ to_unload |-> inserted[c]]
          /\ entities' = [e \in DOMAIN world \ despawned |-> world[e]]
    /\ UNCHANGED <<loading_queue, player_chunk, view_distance, memory_budget,
                   load_budget, last_cleanup, now, loads, saves, files,
                   panicked>>

----------------------------------------------------------------------------
(* update_loading_priorities                                               *)

(* The Chunk a queued coordinate resolves to: chunks.get(coord) followed   *)
(* by chunk_query.get(entity).                                             *)
HasChunk(coord, ents) ==
    coord \in DOMAIN chunks /\ chunks[coord] \in DOMAIN ents

(* priority = (1000.0 / (distance + 1.0) * (1.0 + waiting_time * 0.1))     *)
(* as i32, with distance = dx*dx + dy*dy.  For a waiting time of w whole   *)
(* seconds this is the integer part of 100 * (10 + w) / (distance + 1);    *)
(* the rounding of the f32 intermediate results is not modelled.           *)
priority_of(dx, dy, waiting_time) ==
    (100 * (10 + waiting_time)) \div ((dx * dx + dy * dy) + 1)

(* The loop over loading_queue, front to back: a queued coordinate that    *)
(* has a Chunk gets its priority and has last_accessed reset.              *)
RECURSIVE update_priorities(_, _)
update_priorities(ents, q) ==
    IF q = << >> THEN ents
    ELSE LET coord == Head(q)
             dx == Abs(coord[1] - player_chunk[1][1])
             dy == Abs(coord[2] - player_chunk[1][2])
             e == chunks[coord]
             upd == IF HasChunk(coord, ents)
                    THEN [ents EXCEPT ![e] =
                            [@ EXCEPT
                               !.priority =
                                   priority_of(dx, dy,
                                               now - ents[e].last_accessed),
                               !.last_accessed = now]]
                    ELSE ents
         IN update_priorities(upd, Tail(q))

(* The key of loading_queue.sort_by_key.                                   *)
sort_key(coord, ents) ==
    IF HasChunk(coord, ents) THEN -(ents[chunks[coord]].priority) ELSE 0

(* Vec::sort_by_key: a stable sort, ascending in the key.                  *)
RECURSIVE sort_by_key(_, _)
sort_by_key(q, ents) ==
    IF q = << >> THEN << >>
    ELSE LET front == sort_by_key(SubSeq(q, 1, Len(q) - 1), ents)
             last == q[Len(q)]
             k == Cardinality({i \in 1..Len(front) :
                     sort_key(front[i], ents) <= sort_key(last, ents)})
         IN SubSeq(front, 1, k) \o <<last>> \o
            SubSeq(front, k + 1, Len(front))

(* update_loading_priorities run by itself, with a viewpoint set.          *)
update_loading_priorities ==
    /\ ~panicked
    /\ UNCHANGED <<edited, map_vars>>
    /\ player_chunk # None
    /\ entities' = update_priorities(entities, loading_queue)
    /\ loading_queue' = sort_by_key(loading_queue, entities')
    /\ UNCHANGED <<chunks, player_chunk, view_distance, memory_budget,
                   load_budget, last_cleanup, now, next_entity, loads, saves,
                   files, panicked>>

----------------------------------------------------------------------------
(* cleanup_inactive_chunks, step 1: the chunks to unload.                  *)
chunks_to_unload(ents) ==
    {c \in DOMAIN chunks :
        /\ chunks[c] \in DOMAIN ents
        /\ \/ Cardinality(DOMAIN chunks) > memory_budget
           \/ now - ents[chunks[c]].last_accessed > INACTIVE_LIMIT
           \/ manhattan_distance(c, player_chunk[1]) > view_distance * 2}

(* cleanup_inactive_chunks, step 2: the coordinates save_chunk_data is     *)
(* called for.                                                             *)
chunks_to_save(ents, unload) ==
    {c \in unload : /\ ents[chunks[c]].data # None
                    /\ ents[chunks[c]].data[1].modified}

(* A cleanup that is due as soon as 5 seconds have passed.                 *)
CleanupDueAtInterval == now - last_cleanup >= CLEANUP_INTERVAL

(* chunk_loading_system runs a cleanup when more than 5 seconds have       *)
(* passed since the last one.                                              *)
CleanupDue == now - last_cleanup > CLEANUP_INTERVAL

(* The unwrap() of player_chunk in update_loading_priorities (a queued     *)
(* coordinate) and in cleanup_inactive_chunks (a resident chunk).          *)
UnwrapPanics ==
    /\ player_chunk = None
    /\ \/ loading_queue # << >>
       \/ CleanupDue /\ \E c \in DOMAIN chunks : chunks[c] \in DOMAIN entities

----------------------------------------------------------------------------
(* process_loading_queue: the coordinates popped from the back of the      *)
(* queue, in the order they are popped.                                    *)
popped(q) ==
    [i \in 1..Min(load_budget, Len(q)) |-> q[Len(q) - i + 1]]

(* chunk_loading_system                                                    *)
chunk_loading_system ==
    /\ ~panicked
    /\ UNCHANGED <<edited, map_vars>>
    /\ IF UnwrapPanics
       THEN /\ panicked' = TRUE
            /\ UNCHANGED <<chunks, entities, loading_queue, last_cleanup,
                           next_entity, loads, saves>>
       ELSE LET prioritised == update_priorities(entities, loading_queue)
                sorted == sort_by_key(loading_queue, prioritised)
                unload == IF CleanupDue THEN chunks_to_unload(prioritised)
                          ELSE {}
                despawned == {chunks[c] : c \in unload}
                pop == popped(sorted)
                n == Len(pop)
                kept == [c \in DOMAIN chunks \ unload |-> chunks[c]]
                spawned == [e \in next_entity..(next_entity + n - 1) |->
                              LoadingChunk(pop[e - next_entity + 1], now)]
                world == [e \in (DOMAIN prioritised \ despawned)
                                   \cup DOMAIN spawned |->
                             IF e \in DOMAIN spawned THEN spawned[e]
                             ELSE prioritised[e]]
            IN /\ n = 0 \/ next_entity + n - 1 <= MaxStarted
               /\ next_entity' = next_entity + n
               /\ last_cleanup' = IF CleanupDue THEN now ELSE last_cleanup
               /\ saves' = saves \cup chunks_to_save(prioritised, unload)
               /\ loading_queue' = SubSeq(sorted, 1, Len(sorted) - n)
               /\ entities' = world
               /\ chunks' = [c \in DOMAIN kept \cup {pop[i] : i \in 1..n} |->
                               IF \E i \in 1..n : pop[i] = c
                               THEN next_entity - 1 +
                                    (CHOOSE i \in 1..n : pop[i] = c /\
                                        \A j \in (i + 1)..n : pop[j] # c)
                               ELSE kept[c]]
               /\ loads' = loads \cup
                      {[coord |-> pop[i], entity |-> next_entity - 1 + i] :
                          i \in 1..n}
               /\ panicked' = FALSE
    /\ UNCHANGED <<player_chunk, view_distance, memory_budget, load_budget,
                   now, files>>

----------------------------------------------------------------------------
(* The futures of load_chunk_data and save_chunk_data.  The callers make   *)
(* them and do not await them; the model lets a future run at any later    *)
(* moment or never.                                                        *)

(* What load_chunk_data returns: Err when the file cannot be read.         *)
load_result(l) == IF l.coord \in files THEN "Ok" ELSE "Err"

(* load_chunk_data(coord, entity, commands) running to its end.  The       *)
(* insert on an entity that was despawned panics or is dropped, depending  *)
(* on the engine version.                                                  *)
load_chunk_data(l) ==
    /\ ~panicked
    /\ UNCHANGED <<edited, map_vars>>
    /\ l \in loads
    /\ loads' = loads \ {l}
    /\ IF load_result(l) = "Err"
       THEN UNCHANGED <<entities, panicked>>
       ELSE IF l.entity \in DOMAIN entities
            THEN /\ entities' = [entities EXCEPT ![l.entity].chunk_data = TRUE]
                 /\ UNCHANGED panicked
            ELSE /\ panicked' \in BOOLEAN
                 /\ UNCHANGED entities
    /\ UNCHANGED <<chunks, loading_queue, player_chunk, view_distance,
                   memory_budget, load_budget, last_cleanup, now,
                   next_entity, saves, files>>

(* save_chunk_data(coord, data) running to its end: the file is written,   *)
(* or the write fails.                                                     *)
save_chunk_data(coord) ==
    /\ ~panicked
    /\ UNCHANGED <<edited, map_vars>>
    /\ coord \in saves
    /\ saves' = saves \ {coord}
    /\ files' \in {files, files \cup {coord}}
    /\ UNCHANGED <<chunks, entities, loading_queue, player_chunk,
                   view_distance, memory_budget, load_budget, last_cleanup,
                   now, next_entity, loads, panicked>>

(* Gameplay edits the data of a chunk and sets the public modified flag.   *)
ModifyChunk(e) ==
    /\ ~panicked
    /\ UNCHANGED <<edited, map_vars>>
    /\ e \in DOMAIN entities
    /\ entities[e].coord \in EditCoords
    /\ entities[e].data # None
    /\ ~entities[e].data[1].modified
    /\ entities' = [entities EXCEPT ![e].data = Some([modified |-> TRUE])]
    /\ UNCHANGED <<chunks, loading_queue, player_chunk, view_distance,
                   memory_budget, load_budget, last_cleanup, now,
                   next_entity, loads, saves, files, panicked>>

----------------------------------------------------------------------------
(* The world streamed by ChunkLoaderSystem::process_chunk_loading, the     *)
(* system ChunkSystemPlugin registers, with the cleanup pass of            *)
(* chunk_loading_system running over the same ChunkManager; nothing is     *)
(* pushed on the loading queue.                                            *)
InitStream ==
    /\ Init
    /\ files = {}

NextStream ==
    \/ \E t \in FrameTimes : Advance(t)
    \/ \E wx \in WorldXs, wy \in WorldYs : update_player_position(wx, wy)
    \/ process_chunk_loading
    \/ \E e \in DOMAIN entities : ModifyChunk(e)
    \/ chunk_loading_system
    \/ \E c \in saves : save_chunk_data(c)

SpecStream == InitStream /\ [][NextStream]_vars

(* The systems ChunkSystemPlugin registers: process_chunk_loading alone,   *)
(* run in every frame (Update); the host moves the viewpoint and the       *)
(* clock, and gameplay edits chunks.                                       *)
NextPlugin ==
    \/ \E t \in FrameTimes : Advance(t)
    \/ \E wx \in WorldXs, wy \in WorldYs : update_player_position(wx, wy)
    \/ process_chunk_loading
    \/ \E e \in DOMAIN entities : ModifyChunk(e)

SpecPlugin ==
    InitStream /\ [][NextPlugin]_vars /\ WF_vars(process_chunk_loading)

(* The world driven by chunk_loading_system and its loading queue.         *)
Next ==
    \/ \E t \in FrameTimes : Advance(t)
    \/ \E wx \in WorldXs, wy \in WorldYs : update_player_position(wx, wy)
    \/ \E c \in QueueCoords : Enqueue(c)
    \/ chunk_loading_system
    \/ \E l \in loads : load_chunk_data(l)

Spec == Init /\ [][Next]_vars

(* Two chunks that were started in the same frame and whose coordinates    *)
(* were pushed on the queue again, seen from the viewpoint chunk (0, 0):   *)
(* the inputs of update_loading_priorities.                                *)
InitPriority ==
    /\ \E a \in PriorityCoords, b \in PriorityCoords :
          /\ a # b
          /\ chunks = (a :> 1) @@ (b :> 2)
          /\ entities = (1 :> LoadingChunk(a, 0)) @@ (2 :> LoadingChunk(b, 0))
          /\ loading_queue = <<a, b>>
          /\ loads = {[coord |-> a, entity |-> 1], [coord |-> b, entity |-> 2]}
    /\ player_chunk = Some(<<0, 0>>)
    /\ view_distance \in ViewDistances
    /\ memory_budget = 100
    /\ load_budget = 2
    /\ last_cleanup = 0
    /\ now = 0
    /\ next_entity = 3
    /\ saves = {}
    /\ files = {}
    /\ panicked = FALSE
    /\ edited = None
    /\ MapUnused

NextPriority ==
    \/ \E t \in FrameTimes : Advance(t)
    \/ update_loading_priorities

SpecPriority == InitPriority /\ [][NextPriority]_vars

----------------------------------------------------------------------------
(* WaterManager.  A position is the cell <<x, y>> its Vec2 truncates to; an *)
(* angle is a number of eighths of a turn, 0..7, and a step of length 1    *)
(* along it moves to the neighbouring cell in that direction.  The         *)
(* thread-local RNG (rand::thread_rng, rand::random) is a tape of draws    *)
(* that the caller cannot choose: every call gets some tape, read round    *)
(* and round from position k.                                              *)

(* River::default, Lake::default and Waterfall parameters low enough for a *)
(* waterfall to exist on a height map of 0.0 .. 0.8.                       *)
WaterManagers ==
    {[river_params |-> [min_width |-> 1, max_width |-> 3, meandering |-> m,
                        branch_probability |-> bp, max_branches |-> 2],
      lake_params |-> [min_size |-> 5, max_size |-> 15,
                       depth_variation |-> 2, shore_complexity |-> 3],
      waterfall_params |-> [min_height |-> mh, max_height |-> 6,
                            min_slope |-> 2, flow_strength |-> 10,
                            splash_range |-> 20],
      seed |-> 12345] : m \in {0, 1}, bp \in {0, 15}, mh \in {3, 6}}

(* Vec2::from_angle(angle), in cells.                                      *)
from_angle(a) ==
    CASE a % 8 = 0 -> <<1, 0>>
      [] a % 8 = 1 -> <<1, 1>>
      [] a % 8 = 2 -> <<0, 1>>
      [] a % 8 = 3 -> <<-1, 1>>
      [] a % 8 = 4 -> <<-1, 0>>
      [] a % 8 = 5 -> <<-1, -1>>
      [] a % 8 = 6 -> <<0, -1>>
      [] OTHER -> <<1, -1>>

(* pos + offset * steps                                                    *)
moved(pos, a, steps) ==
    <<pos[1] + steps * from_angle(a)[1], pos[2] + steps * from_angle(a)[2]>>

(* The k-th draw of a tape, and rng.gen_range(lo..=hi) made from it.       *)
draw(tape, k) == tape[((k - 1) % Len(tape)) + 1]
gen_range(tape, k, lo, hi) == lo + (draw(tape, k) * (hi - lo + 1)) \div 100

(* WaterManager::is_valid_river_point                                      *)
is_valid_river_point(pos, height_map, chunk_size) ==
    LET index == pos[2] * chunk_size + pos[1]
    IN /\ ~(pos[1] < 0 \/ pos[1] >= chunk_size \/
            pos[2] < 0 \/ pos[2] >= chunk_size)
       /\ ~(index < 0 \/ index >= Len(height_map))
       /\ height_map[index + 1] >= 1
       /\ height_map[index + 1] <= 8

(* WaterManager::get_height_at                                             *)
get_height_at(pos, height_map, chunk_size) ==
    LET index == pos[2] * chunk_size + pos[1]
    IN IF ~is_valid_river_point(pos, height_map, chunk_size) THEN 0
       ELSE IF index >= 0 /\ index < Len(height_map)
            THEN height_map[index + 1] ELSE 0

(* WaterManager::calculate_flow_angle: the loop over the 8 directions,     *)
(* from direction i on, with the lowest height and its direction so far.   *)
RECURSIVE flow_scan(_, _, _, _, _, _)
flow_scan(i, min_height, flow_dir, pos, height_map, chunk_size) ==
    IF i = 8 THEN flow_dir
    ELSE LET check_pos == moved(pos, i, 1)
             outside == \/ check_pos[1] < 0 \/ check_pos[1] >= chunk_size
                        \/ check_pos[2] < 0 \/ check_pos[2] >= chunk_size
             height == get_height_at(check_pos, height_map, chunk_size)
         IN IF ~outside /\ height < min_height
            THEN flow_scan(i + 1, height, i, pos, height_map, chunk_size)
            ELSE flow_scan(i + 1, min_height, flow_dir, pos, height_map,
                           chunk_size)

calculate_flow_angle(pos, height_map, chunk_size) ==
    flow_scan(0, get_height_at(pos, height_map, chunk_size), 2, pos,
              height_map, chunk_size)

(* WaterManager::generate_branch, its loop first: the path so far, the    *)
(* current position and the next draw.  The step of 0.5 + width / 5 is     *)
(* one cell, and the combined angle is rounded down to an eighth.          *)
RECURSIVE branch_loop(_, _, _, _, _, _, _, _, _)
branch_loop(path, current, k, branch_length, branch_angle, branch_width, height_map, chunk_size, tape) ==
    IF ~(Len(path) < branch_length
         /\ is_valid_river_point(current, height_map, chunk_size))
    THEN [path |-> path, k |-> k]
    ELSE LET rp == water_manager[1].river_params
             flow_angle == calculate_flow_angle(current, height_map, chunk_size)
             meandering_factor ==
                 (rp.meandering * (2 * rp.max_width - branch_width))
                     \div rp.max_width
             meandering_offset ==
                 gen_range(tape, k, -meandering_factor, meandering_factor)
             combined_angle == (7 * flow_angle + 3 * branch_angle) \div 10
                                   + meandering_offset
         IN branch_loop(Append(path, current),
                        moved(current, combined_angle, 1), k + 1,
                        branch_length, branch_angle, branch_width,
                        height_map, chunk_size, tape)

generate_branch(start, height_map, chunk_size, tape, k) ==
    LET rp == water_manager[1].river_params
        max_length == rp.max_width * 3
        branch_angle == gen_range(tape, k, 0, 7)
        branch_width ==
            gen_range(tape, k + 1, rp.min_width, rp.max_width \div 2)
        branch_length ==
            (max_length * (5 * rp.max_width + 10 * branch_width))
                \div (10 * rp.max_width)
    IN branch_loop(<< >>, start, k + 2, branch_length, branch_angle,
                   branch_width, height_map, chunk_size, tape)

(* The branches made at one point of the river, one after the other.       *)
RECURSIVE branches(_, _, _, _, _, _, _)
branches(n, path, current, height_map, chunk_size, tape, k) ==
    IF n = 0 THEN [path |-> path, k |-> k]
    ELSE LET b == generate_branch(current, height_map, chunk_size, tape, k)
         IN branches(n - 1, path \o b.path, current, height_map, chunk_size,
                     tape, b.k)

(* WaterManager::generate_river, its loop first.                           *)
RECURSIVE river_loop(_, _, _, _, _, _)
river_loop(path, current, k, height_map, chunk_size, tape) ==
    IF ~(Len(path) < 100) THEN path
    ELSE LET rp == water_manager[1].river_params
             pushed == Append(path, current)
             flow_angle == calculate_flow_angle(current, height_map, chunk_size)
             meandering_offset ==
                 gen_range(tape, k, -rp.meandering, rp.meandering)
             next == moved(current, flow_angle + meandering_offset, 1)
             branches_count == gen_range(tape, k + 2, 1, rp.max_branches)
             branched == branches(branches_count, pushed, next, height_map,
                                  chunk_size, tape, k + 3)
         IN IF ~is_valid_river_point(next, height_map, chunk_size)
            THEN pushed
            ELSE IF draw(tape, k + 1) < rp.branch_probability
                 THEN river_loop(branched.path, next, branched.k, height_map,
                                 chunk_size, tape)
                 ELSE river_loop(pushed, next, k + 2, height_map, chunk_size,
                                 tape)

river_path(start, height_map, chunk_size, tape) ==
    river_loop(<< >>, start, 1, height_map, chunk_size, tape)

(* WaterManager::generate_lake: the points pushed, in the order of the     *)
(* loops (x outer, y inner).  The Perlin field of the random seed is a     *)
(* value of -1.0 .. 1.0 for each point, taken from the tape.               *)
lake_points(center, height_map, chunk_size, tape) ==
    LET lp == water_manager[1].lake_params
        center_height == get_height_at(center, height_map, chunk_size)
        is_suitable_for_lake == center_height < 4
        lo == IF is_suitable_for_lake THEN lp.min_size
              ELSE (lp.min_size * 6) \div 10
        hi == IF is_suitable_for_lake THEN lp.max_size
              ELSE (lp.max_size * 6) \div 10
        size == gen_range(tape, 1, lo, hi)
        side == 2 * size + 1
        point(i) == <<center[1] - size + ((i - 1) \div side),
                      center[2] - size + ((i - 1) % side)>>
        noise_val(p) == gen_range(tape, 2 + p[1] + chunk_size * p[2], -10, 10)
        in_lake(p) ==
            LET point_height == get_height_at(p, height_map, chunk_size)
                over == IF point_height > center_height
                        THEN point_height - center_height ELSE 0
                dx == p[1] - center[1]
                dy == p[2] - center[2]
                effective == size * (100 + noise_val(p) * lp.shore_complexity)
                                  * (lp.depth_variation - over)
                scale == 100 * lp.depth_variation
            IN /\ ~(p[1] < 0 \/ p[1] >= chunk_size \/
                    p[2] < 0 \/ p[2] >= chunk_size)
               /\ ~(point_height > center_height + lp.depth_variation)
               /\ effective > 0
               /\ (dx * dx + dy * dy) * scale * scale < effective * effective
    IN SelectSeq([i \in 1..(side * side) |-> point(i)], in_lake)

(* WaterManager::calculate_slope, in twentieths: half the largest height   *)
(* difference to a neighbour, at most 1.0.                                 *)
calculate_slope(position, height_map, chunk_size) ==
    LET current_height == get_height_at(position, height_map, chunk_size)
        height_diff(i) ==
            Abs(current_height -
                get_height_at(moved(position, i, 1), height_map, chunk_size))
        max_slope == CHOOSE m \in {height_diff(i) : i \in 0..7} :
                        \A i \in 0..7 : height_diff(i) <= m
    IN Min(max_slope, 20)

(* WaterManager::calculate_height_difference                               *)
calculate_height_difference(position, height_map, chunk_size) ==
    LET current_height == get_height_at(position, height_map, chunk_size)
        flow_angle == calculate_flow_angle(position, height_map, chunk_size)
        downstream_height ==
            get_height_at(moved(position, flow_angle, 2), height_map,
                          chunk_size)
    IN IF current_height - downstream_height > 0
       THEN current_height - downstream_height ELSE 0

waterfall_on_either(position, height_map, chunk_size) ==
    LET wp == water_manager[1].waterfall_params
        slope == calculate_slope(position, height_map, chunk_size)
        height_diff ==
            calculate_height_difference(position, height_map, chunk_size)
        height == Min(height_diff, wp.max_height)
    IN IF slope < 2 * wp.min_slope /\ height_diff < wp.min_height THEN None
       ELSE Some([position |-> position,
                  min_height |-> wp.min_height,
                  max_height |-> wp.max_height,
                  min_slope |-> wp.min_slope,
                  flow_strength |->
                      (wp.flow_strength * height * 100) \div wp.max_height,
                  splash_range |-> wp.splash_range])

(* WaterManager::generate_waterfall; the flow strength is kept in          *)
(* thousandths.                                                            *)
waterfall(position, height_map, chunk_size) ==
    LET wp == water_manager[1].waterfall_params
        slope == calculate_slope(position, height_map, chunk_size)
        height_diff ==
            calculate_height_difference(position, height_map, chunk_size)
        height == Min(height_diff, wp.max_height)
    IN IF slope < 2 * wp.min_slope THEN None
       ELSE IF height_diff < wp.min_height THEN None
       ELSE Some([position |-> position,
                  min_height |-> wp.min_height,
                  max_height |-> wp.max_height,
                  min_slope |-> wp.min_slope,
                  flow_strength |->
                      (wp.flow_strength * height * 100) \div wp.max_height,
                  splash_range |-> wp.splash_range])

(* A call on a map subsystem goes into the log of calls.                   *)
Called(fn, args, result) ==
    /\ Len(calls) < MaxCalls
    /\ calls' = Append(calls, [fn |-> fn, args |-> args, result |-> result])

generate_river(start, height_map, chunk_size) ==
    /\ water_manager # None
    /\ \E tape \in Tapes :
          Called("generate_river", <<start, height_map, chunk_size>>,
                 river_path(start, height_map, chunk_size, tape))
    /\ UNCHANGED <<chunk_vars, edited, water_manager, vegetation_system,
                   climate_system, map_rules, map_generator,
                   map_manager>>

generate_lake(center, height_map, chunk_size) ==
    /\ water_manager # None
    /\ \E tape \in Tapes :
          Called("generate_lake", <<center, height_map, chunk_size>>,
                 lake_points(center, height_map, chunk_size, tape))
    /\ UNCHANGED <<chunk_vars, edited, water_manager, vegetation_system,
                   climate_system, map_rules, map_generator,
                   map_manager>>

generate_waterfall(position, height_map, chunk_size) ==
    /\ water_manager # None
    /\ Called("generate_waterfall", <<position, height_map, chunk_size>>,
              waterfall(position, height_map, chunk_size))
    /\ UNCHANGED <<chunk_vars, edited, water_manager, vegetation_system,
                   climate_system, map_rules, map_generator,
                   map_manager>>

(* The chunk streaming at rest, as ChunkManager::default leaves it.        *)
ChunkIdle ==
    /\ chunks = << >>
    /\ entities = << >>
    /\ loading_queue = << >>
    /\ player_chunk = None
    /\ view_distance = 5
    /\ memory_budget = 100
    /\ load_budget = 2
    /\ last_cleanup = 0
    /\ now = 0
    /\ next_entity = 1
    /\ loads = {}
    /\ saves = {}
    /\ files = {}
    /\ panicked = FALSE
    /\ edited = None

InitWater ==
    /\ ChunkIdle
    /\ water_manager \in {Some(w) : w \in WaterManagers}
    /\ vegetation_system = None
    /\ climate_system = None
    /\ map_rules = None
    /\ map_generator = None
    /\ map_manager = None
    /\ calls = << >>

NextWater ==
    \/ \E p \in WaterPositions, hm \in HeightMaps, cs \in WaterChunkSizes :
          generate_river(p, hm, cs)
    \/ \E p \in WaterPositions, hm \in HeightMaps, cs \in WaterChunkSizes :
          generate_lake(p, hm, cs)
    \/ \E p \in WaterPositions, hm \in HeightMaps, cs \in WaterChunkSizes :
          generate_waterfall(p, hm, cs)

SpecWater == InitWater /\ [][NextWater]_vars

(* The waterfall queries alone                                             *)
NextWaterfall ==
    \E position \in WaterPositions, height_map \in HeightMaps,
       chunk_size \in WaterChunkSizes :
        generate_waterfall(position, height_map, chunk_size)

SpecWaterfall == InitWater /\ [][NextWaterfall]_vars

----------------------------------------------------------------------------
(* MapRules.  density is counted in tenths, min_distance in whole units;   *)
(* fixed_scenes and type_weights are functions from their keys, and        *)
(* environment_requirements is the set of scene types that have an entry.  *)

(* An EnvironmentParams, in hundredths.                                    *)
EnvironmentParams(height, temperature, moisture) ==
    [height |-> height, temperature |-> temperature, moisture |-> moisture,
     terrain_type |-> IF height < 20 THEN "Valley"
                      ELSE IF height < 40 THEN "Plain"
                      ELSE IF height < 60 THEN "Hill"
                      ELSE IF height < 80 THEN "Mountain"
                      ELSE "Peak"]

(* MapRules::default with the seed of MapRules::new                        *)
MapRules_default(seed) ==
    [world_config |-> [seed |-> seed],
     fixed_scenes |-> << >>,
     scene_rules |-> [density |-> 5, min_distance |-> 10,
                      type_weights |-> << >>,
                      environment_requirements |-> {}]]

(* IVec2::distance_squared                                                 *)
distance_squared(a, b) ==
    (a[1] - b[1]) * (a[1] - b[1]) + (a[2] - b[2]) * (a[2] - b[2])

(* MapRules::check_scene_compatibility; the check_compatibility of a       *)
(* TerrainCompatibility returns false for every environment.               *)
check_scene_compatibility(rules, pos, scene_type, env) ==
    /\ \A existing_pos \in DOMAIN rules.fixed_scenes :
          ~(distance_squared(pos, existing_pos) <
               rules.scene_rules.min_distance * rules.scene_rules.min_distance)
    /\ scene_type \notin rules.scene_rules.environment_requirements

(* MapRules::get_possible_scenes: the pairs pushed; their order is that of *)
(* the HashMap's iteration.                                                *)
possible_scenes(rules, pos, env) ==
    {<<t, rules.scene_rules.type_weights[t]>> :
        t \in {u \in DOMAIN rules.scene_rules.type_weights :
                  check_scene_compatibility(rules, pos, u, env)}}

(* MapRules::validate                                                      *)
validate_result(rules) ==
    IF rules.world_config.seed = 0 THEN "Err"
    ELSE IF rules.scene_rules.density < 0 \/ rules.scene_rules.density > 10
         THEN "Err"
    ELSE IF rules.scene_rules.min_distance < 0 THEN "Err"
    ELSE "Ok"

(* MapRules::new                                                           *)
MapRules_new(seed) ==
    /\ map_rules = None
    /\ map_rules' = Some(MapRules_default(seed))
    /\ UNCHANGED <<chunk_vars, edited, water_manager, vegetation_system,
                   climate_system, map_generator, map_manager, calls>>

(* MapRules::add_fixed_scene                                               *)
add_fixed_scene(pos, scene_type) ==
    /\ map_rules # None
    /\ LET rules == map_rules[1]
           fixed == rules.fixed_scenes
       IN map_rules' = Some([rules EXCEPT !.fixed_scenes =
              [p \in DOMAIN fixed \cup {pos} |->
                  IF p = pos THEN scene_type ELSE fixed[p]]])
    /\ UNCHANGED <<chunk_vars, edited, water_manager, vegetation_system,
                   climate_system, map_generator, map_manager, calls>>

(* MapRules::set_scene_weight                                              *)
set_scene_weight(scene_type, weight) ==
    /\ map_rules # None
    /\ LET rules == map_rules[1]
           weights == rules.scene_rules.type_weights
       IN map_rules' = Some([rules EXCEPT !.scene_rules.type_weights =
              [t \in DOMAIN weights \cup {scene_type} |->
                  IF t = scene_type THEN weight ELSE weights[t]]])
    /\ UNCHANGED <<chunk_vars, edited, water_manager, vegetation_system,
                   climate_system, map_generator, map_manager, calls>>

(* The owner of a MapRules assigns the public fields density and           *)
(* min_distance of its scene_rules.                                        *)
set_scene_rules(density, min_distance) ==
    /\ map_rules # None
    /\ map_rules' = Some([map_rules[1] EXCEPT
                             !.scene_rules.density = density,
                             !.scene_rules.min_distance = min_distance])
    /\ UNCHANGED <<chunk_vars, edited, water_manager, vegetation_system,
                   climate_system, map_generator, map_manager, calls>>

(* MapRules::validate, called by the owner of the rules                    *)
validate ==
    /\ map_rules # None
    /\ Called("validate", << >>, validate_result(map_rules[1]))
    /\ UNCHANGED <<chunk_vars, edited, water_manager, vegetation_system,
                   climate_system, map_rules, map_generator, map_manager>>

(* MapRules::get_possible_scenes                                           *)
get_possible_scenes(pos, env) ==
    /\ map_rules # None
    /\ Called("get_possible_scenes", <<pos, env>>,
              possible_scenes(map_rules[1], pos, env))
    /\ UNCHANGED <<chunk_vars, edited, water_manager, vegetation_system,
                   climate_system, map_rules, map_generator, map_manager>>

(* MapManager::new                                                         *)
MapManager_new(seed) ==
    [seed |-> seed, height_scale |-> 5, enable_2_5d |-> TRUE]

(* setup_map_system: the seed is rand::random::<u32>()                     *)
setup_map_system ==
    /\ map_manager # None
    /\ \E seed \in Seeds :
          map_manager' = Some([MapManager_new(seed) EXCEPT
                                  !.enable_2_5d = TRUE, !.height_scale = 5])
    /\ UNCHANGED <<chunk_vars, edited, water_manager, vegetation_system,
                   climate_system, map_rules, map_generator, calls>>

----------------------------------------------------------------------------
(* MapGenerator.  The terrain and climate noise are functions the model    *)
(* does not compute: a generator carries a field of the values they give   *)
(* at each position (hundredths) and the first draw of the ChaCha stream   *)
(* of each seed.                                                           *)

EnvFields ==
    {[p \in ScenePositions |->
         [height |-> 30, temperature |-> 50, moisture |-> 50, slope |-> 0]],
     [p \in ScenePositions |->
         IF p = <<0, 0>>
         THEN [height |-> 90, temperature |-> 20, moisture |-> 50, slope |-> 0]
         ELSE IF p = <<3, 0>>
         THEN [height |-> 10, temperature |-> 50, moisture |-> 90, slope |-> 0]
         ELSE [height |-> 70, temperature |-> 50, moisture |-> 50, slope |-> 80]]}

(* make_rng_for_position: the combined seed.  The arithmetic wraps at      *)
(* 2^64; the seeds and positions used here stay below it.                  *)
combined_seed(seed, pos) == (seed + pos[1]) * 31 + pos[2]

CombinedSeeds == {combined_seed(seed, pos) : seed \in Seeds, pos \in ScenePositions}

ChaChaStreams == {[k \in CombinedSeeds |-> d] : d \in Draws}

(* MapGenerator::default with the seed of MapGenerator::initialize         *)
MapGenerator_default(seed, terrain, chacha) ==
    [world_config |-> [seed |-> seed],
     scene_rules |-> [fixed_scenes |-> << >>, generation_weights |-> << >>,
                      min_scene_distance |-> 100],
     terrain |-> terrain, chacha |-> chacha]

(* MapGenerator::get_environment                                           *)
get_environment(generator, pos) ==
    LET at == generator.terrain[pos]
    IN EnvironmentParams(at.height, at.temperature, at.moisture)

(* The candidates of generate_scene_for_environment, in push order         *)
scene_candidates(generator, pos, env) ==
    LET by_terrain ==
            IF env.terrain_type = "Peak" /\ env.height > 85
            THEN <<<<"Temple", 10>>>>
            ELSE IF env.terrain_type = "Plain"
            THEN <<<<"Village", 5>>>> \o
                 (IF env.height > 25 /\ env.height < 35
                  THEN <<<<"Town", 3>>>> ELSE << >>)
            ELSE IF env.terrain_type = "Valley" /\ env.moisture > 80
            THEN <<<<"Lake", 8>>>>
            ELSE IF env.terrain_type = "Mountain"
                    /\ generator.terrain[pos].slope > 70
            THEN <<<<"Waterfall", 7>>>>
            ELSE << >>
        weights == generator.scene_rules.generation_weights
    IN by_terrain \o [i \in 1..Len(weights) |-> weights[i]]

RECURSIVE total_weight(_)
total_weight(candidates) ==
    IF candidates = << >> THEN 0
    ELSE Head(candidates)[2] + total_weight(Tail(candidates))

(* The weighted pick: random_value is total * d / 100 for a draw d.        *)
RECURSIVE weighted_pick(_, _, _)
weighted_pick(candidates, scaled_value, cumulative) ==
    IF candidates = << >> THEN None
    ELSE IF scaled_value <= 100 * (cumulative + Head(candidates)[2])
    THEN Some(Head(candidates)[1])
    ELSE weighted_pick(Tail(candidates), scaled_value,
                       cumulative + Head(candidates)[2])

(* MapGenerator::generate_scene_for_environment                            *)
generate_scene_for_environment(generator, pos, env) ==
    LET d == generator.chacha[combined_seed(generator.world_config.seed, pos)]
        candidates == scene_candidates(generator, pos, env)
    IN IF candidates = << >> THEN None
       ELSE weighted_pick(candidates, total_weight(candidates) * d, 0)

(* MapGenerator::get_scene_at                                              *)
scene_at(generator, pos) ==
    IF pos \in DOMAIN generator.scene_rules.fixed_scenes
    THEN Some(generator.scene_rules.fixed_scenes[pos])
    ELSE generate_scene_for_environment(generator, pos,
                                        get_environment(generator, pos))

(* MapGenerator::new                                                       *)
MapGenerator_new(seed) ==
    /\ map_generator = None
    /\ \E terrain \in EnvFields, chacha \in ChaChaStreams :
          map_generator' = Some(MapGenerator_default(seed, terrain, chacha))
    /\ UNCHANGED <<chunk_vars, edited, water_manager, vegetation_system,
                   climate_system, map_rules, map_manager, calls>>

get_scene_at(x, y) ==
    /\ map_generator # None
    /\ Called("get_scene_at", <<x, y>>, scene_at(map_generator[1], <<x, y>>))
    /\ UNCHANGED <<chunk_vars, edited, water_manager, vegetation_system,
                   climate_system, map_rules, map_generator, map_manager>>

(* The map plugin has put a default MapManager in the world; no rules and  *)
(* no generator exist yet.                                                 *)
InitScene ==
    /\ ChunkIdle
    /\ water_manager = None
    /\ vegetation_system = None
    /\ climate_system = None
    /\ map_rules = None
    /\ map_generator = None
    /\ map_manager = Some(MapManager_new(42))
    /\ calls = << >>

NextScene ==
    \/ \E seed \in Seeds : MapRules_new(seed)
    \/ \E f \in FixedScenes : add_fixed_scene(f[1], f[2])
    \/ \E w \in SceneWeights : set_scene_weight(w[1], w[2])
    \/ \E density \in Densities, min_distance \in MinDistances :
          set_scene_rules(density, min_distance)
    \/ validate
    \/ \E pos \in ScenePositions, field \in EnvFields :
          get_possible_scenes(pos,
              EnvironmentParams(field[pos].height, field[pos].temperature,
                                field[pos].moisture))
    \/ setup_map_system
    \/ \E seed \in Seeds : MapGenerator_new(seed)
    \/ \E pos \in ScenePositions : get_scene_at(pos[1], pos[2])

SpecScene == InitScene /\ [][NextScene]_vars

----------------------------------------------------------------------------
(* The vegetation System.  Heights, temperatures, moistures, ranges,       *)
(* density_factor and draws are counted in hundredths; a suitability is    *)
(* counted in tenths.                                                      *)

EnvironmentCompatibility(ih, sh, it, st, im, sm) ==
    [ideal_height |-> ih, survivable_height |-> sh,
     ideal_temperature |-> it, survivable_temperature |-> st,
     ideal_moisture |-> im, survivable_moisture |-> sm]

(* The compatibility_rules of System::default                              *)
default_compatibility_rules ==
    [t \in {"Grass", "Flower", "Bamboo", "Pine", "Maple", "Willow"} |->
        CASE t = "Grass" ->
                 EnvironmentCompatibility(<<20, 60>>, <<10, 70>>, <<30, 80>>,
                                          <<20, 90>>, <<40, 70>>, <<20, 90>>)
          [] t = "Flower" ->
                 EnvironmentCompatibility(<<25, 50>>, <<20, 60>>, <<40, 70>>,
                                          <<30, 80>>, <<50, 80>>, <<40, 90>>)
          [] t = "Bamboo" ->
                 EnvironmentCompatibility(<<30, 50>>, <<20, 60>>, <<50, 80>>,
                                          <<40, 90>>, <<60, 90>>, <<50, 100>>)
          [] t = "Pine" ->
                 EnvironmentCompatibility(<<40, 80>>, <<30, 90>>, <<20, 60>>,
                                          <<10, 70>>, <<30, 70>>, <<20, 80>>)
          [] t = "Maple" ->
                 EnvironmentCompatibility(<<30, 60>>, <<20, 70>>, <<40, 70>>,
                                          <<30, 80>>, <<40, 70>>, <<30, 80>>)
          [] t = "Willow" ->
                 EnvironmentCompatibility(<<10, 40>>, <<5, 50>>, <<40, 70>>,
                                          <<30, 80>>, <<70, 100>>, <<60, 100>>)]

(* The orders in which the HashMap of rules is iterated                    *)
IterationOrders ==
    {<<"Grass", "Flower", "Bamboo", "Pine", "Maple", "Willow">>,
     <<"Willow", "Maple", "Pine", "Bamboo", "Flower", "Grass">>}

(* System::default.  iteration is the order of the rules' HashMap and      *)
(* chacha the first two draws of the ChaCha8 stream of each seed.          *)
VegetationSystems ==
    {[params |-> [density_factor |-> df, cluster_ratio |-> 30,
                  environment_sensitivity |-> 60, variation |-> 20],
      compatibility_rules |-> default_compatibility_rules,
      vegetation_cache |-> << >>,
      seed |-> 12345,
      iteration |-> order,
      chacha |-> chacha] :
        df \in DensityFactors, order \in IterationOrders,
        chacha \in [{combined_seed(12345, pos) : pos \in VegPositions} -> Tapes]}

(* System::make_rng_from_position: the draws of the position's stream      *)
make_rng_from_position(system, x, y) ==
    system.chacha[combined_seed(system.seed, <<x, y>>)]

check_compatibility_any_height(compat, height, temperature, moisture) ==
    LET temp_ok == /\ temperature >= compat.survivable_temperature[1]
                   /\ temperature <= compat.survivable_temperature[2]
        moisture_ok == /\ moisture >= compat.survivable_moisture[1]
                       /\ moisture <= compat.survivable_moisture[2]
    IN temp_ok /\ moisture_ok

(* System::check_compatibility                                             *)
check_compatibility(compat, height, temperature, moisture) ==
    LET height_ok == /\ height >= compat.survivable_height[1]
                     /\ height <= compat.survivable_height[2]
        temp_ok == /\ temperature >= compat.survivable_temperature[1]
                   /\ temperature <= compat.survivable_temperature[2]
        moisture_ok == /\ moisture >= compat.survivable_moisture[1]
                       /\ moisture <= compat.survivable_moisture[2]
    IN height_ok /\ temp_ok /\ moisture_ok

(* System::calculate_factor_score, in hundredths                           *)
calculate_factor_score(value, ideal_min, ideal_max, survive_min, survive_max) ==
    IF value < survive_min \/ value > survive_max THEN 0
    ELSE IF value >= ideal_min /\ value <= ideal_max THEN 100
    ELSE IF value < ideal_min
    THEN ((value - survive_min) * 100) \div (ideal_min - survive_min)
    ELSE ((survive_max - value) * 100) \div (survive_max - ideal_max)

(* System::calculate_suitability with the default environment_sensitivity: *)
(* the cube root of the product raised to 0.6 is its fifth root, here      *)
(* rounded down to tenths.                                                 *)
calculate_suitability(compat, height, temperature, moisture) ==
    LET height_score ==
            calculate_factor_score(height, compat.ideal_height[1],
                compat.ideal_height[2], compat.survivable_height[1],
                compat.survivable_height[2])
        temp_score ==
            calculate_factor_score(temperature, compat.ideal_temperature[1],
                compat.ideal_temperature[2], compat.survivable_temperature[1],
                compat.survivable_temperature[2])
        moisture_score ==
            calculate_factor_score(moisture, compat.ideal_moisture[1],
                compat.ideal_moisture[2], compat.survivable_moisture[1],
                compat.survivable_moisture[2])
        product == height_score * temp_score * moisture_score
    IN CHOOSE r \in 0..10 :
          /\ 10 * r * r * r * r * r <= product
          /\ \A q \in 0..10 : 10 * q * q * q * q * q <= product => q <= r

(* One step of the stable sort by descending suitability                   *)
RECURSIVE sort_insert(_, _)
sort_insert(sorted, c) ==
    IF sorted = << >> THEN <<c>>
    ELSE IF Head(sorted)[2] < c[2] THEN <<c>> \o sorted
    ELSE <<Head(sorted)>> \o sort_insert(Tail(sorted), c)

RECURSIVE sort_by_suitability(_, _)
sort_by_suitability(sorted, rest) ==
    IF rest = << >> THEN sorted
    ELSE sort_by_suitability(sort_insert(sorted, Head(rest)), Tail(rest))

(* The weighted pick of get_vegetation_at: random_value is d * total / 100 *)
RECURSIVE pick_vegetation(_, _, _)
pick_vegetation(candidates, scaled_value, cumulative) ==
    IF candidates = << >> THEN None
    ELSE IF scaled_value <= 100 * (cumulative + Head(candidates)[2])
    THEN Some(Head(candidates)[1])
    ELSE pick_vegetation(Tail(candidates), scaled_value,
                         cumulative + Head(candidates)[2])

(* System::get_vegetation_at                                               *)
vegetation_at(system, x, y, height, temperature, moisture) ==
    IF <<x, y>> \in DOMAIN system.vegetation_cache
    THEN system.vegetation_cache[<<x, y>>]
    ELSE
    LET rng == make_rng_from_position(system, x, y)
        random_base == rng[1]
        in_order == [i \in 1..Len(system.iteration) |->
                        <<system.iteration[i],
                          system.compatibility_rules[system.iteration[i]]>>]
        compatible(e) == check_compatibility(e[2], height, temperature, moisture)
        kept == SelectSeq(in_order, compatible)
        candidates == [i \in 1..Len(kept) |->
                          <<kept[i][1],
                            calculate_suitability(kept[i][2], height,
                                                  temperature, moisture)>>]
    IN IF random_base > system.params.density_factor THEN None
       ELSE IF candidates = << >> THEN None
       ELSE LET best_candidate == candidates[1]
                sorted == sort_by_suitability(<< >>, candidates)
                picked == pick_vegetation(sorted,
                              rng[2] * total_weight(sorted), 0)
            IN IF picked # None THEN picked ELSE Some(best_candidate[1])

get_vegetation_at(x, y, height, temperature, moisture) ==
    /\ vegetation_system # None
    /\ Called("get_vegetation_at", <<x, y, height, temperature, moisture>>,
              vegetation_at(vegetation_system[1], x, y, height, temperature,
                            moisture))
    /\ UNCHANGED <<chunk_vars, edited, water_manager, vegetation_system,
                   climate_system, map_rules, map_generator, map_manager>>

InitVegetation ==
    /\ ChunkIdle
    /\ water_manager = None
    /\ vegetation_system \in {Some(v) : v \in VegetationSystems}
    /\ climate_system = None
    /\ map_rules = None
    /\ map_generator = None
    /\ map_manager = None
    /\ calls = << >>

NextVegetation ==
    \E pos \in VegPositions, env \in VegEnvironments :
        get_vegetation_at(pos[1], pos[2], env[1], env[2], env[3])

SpecVegetation == InitVegetation /\ [][NextVegetation]_vars

----------------------------------------------------------------------------
(* The climate System.  Temperatures, moistures and parameters are counted *)
(* in hundredths.  The Perlin noise is not computed: a system carries the  *)
(* values (-100 .. 100) its two generators give for each position.         *)

ClimateNoise ==
    {[p \in ClimatePositions |->
         [base_temperature |-> 0, altitude |-> 0, base_moisture |-> 0,
          water |-> 0]],
     [p \in ClimatePositions |->
         IF p = <<0, 0>>
         THEN [base_temperature |-> -60, altitude |-> 20,
               base_moisture |-> -40, water |-> 0]
         ELSE [base_temperature |-> 40, altitude |-> -100,
               base_moisture |-> 20, water |-> 60]]}

(* System::default                                                         *)
ClimateSystems ==
    {[params |-> [temperature_scale |-> 100, temperature_offset |-> 0,
                  moisture_scale |-> 100, moisture_offset |-> 0,
                  altitude_temperature_factor |-> 50,
                  latitude_temperature_factor |-> 30,
                  latitude_moisture_factor |-> 20],
      noise |-> noise,
      current_season |-> "Summer",
      climate_cache |-> << >>,
      seed |-> 12345] : noise \in ClimateNoise}

(* min(1.0).max(0.0)                                                       *)
normalized(v) == IF v > 100 THEN 100 ELSE IF v < 0 THEN 0 ELSE v

(* (1.0 - (y / world_height).min(1.0)) * factor, with world_height 10000   *)
latitude_effect(y, factor) ==
    ((100 - Min(y \div 100, 100)) * factor) \div 100

(* System::calculate_moisture                                              *)
calculate_moisture(system, x, y) ==
    LET at == system.noise[<<x, y>>]
        season_effect ==
            CASE system.current_season = "Summer" -> -10
              [] system.current_season = "Spring" -> 20
              [] system.current_season = "Autumn" -> 10
              [] system.current_season = "Winter" -> -20
        water_effect == (((at.water + 100) \div 2) * 30) \div 100
        moisture ==
            (((at.base_moisture + 100) \div 2
              + latitude_effect(y, system.params.latitude_moisture_factor)
              + season_effect + water_effect)
             * system.params.moisture_scale) \div 100
            + system.params.moisture_offset
    IN normalized(moisture)

(* The temperature that get_temperature computes when the cache misses     *)
calculate_temperature(system, x, y) ==
    LET at == system.noise[<<x, y>>]
        season_effect ==
            CASE system.current_season = "Summer" -> 20
              [] system.current_season \in {"Spring", "Autumn"} -> 0
              [] system.current_season = "Winter" -> -20
        simulated_height == (at.altitude + 100) \div 2
        altitude_effect ==
            -((simulated_height * system.params.altitude_temperature_factor)
                 \div 100)
        temperature ==
            (((at.base_temperature + 100) \div 2
              + latitude_effect(y, system.params.latitude_temperature_factor)
              + season_effect + altitude_effect)
             * system.params.temperature_scale) \div 100
            + system.params.temperature_offset
    IN normalized(temperature)

cache_insert_in_place(system, x, y, temperature, moisture) ==
    [p \in DOMAIN system.climate_cache \cup {<<x, y>>} |->
        IF p = <<x, y>> THEN <<temperature, moisture>>
        ELSE system.climate_cache[p]]

(* The cache of the system after get_temperature has computed a pair: the  *)
(* pair is inserted into a clone of the cache, which is then dropped.      *)
cache_after_insert(system, x, y, temperature, moisture) ==
    system.climate_cache

(* System::get_temperature: the value returned                             *)
temperature_at(system, x, y) ==
    IF <<x, y>> \in DOMAIN system.climate_cache
    THEN system.climate_cache[<<x, y>>][1]
    ELSE calculate_temperature(system, x, y)

(* The system after get_temperature                                        *)
after_get_temperature(system, x, y) ==
    IF <<x, y>> \in DOMAIN system.climate_cache THEN system
    ELSE [system EXCEPT !.climate_cache =
             cache_after_insert(system, x, y,
                                calculate_temperature(system, x, y),
                                calculate_moisture(system, x, y))]

(* System::get_moisture: the value returned                                *)
moisture_at(system, x, y) ==
    IF <<x, y>> \in DOMAIN system.climate_cache
    THEN system.climate_cache[<<x, y>>][2]
    ELSE LET after == after_get_temperature(system, x, y)
         IN IF <<x, y>> \in DOMAIN after.climate_cache
            THEN after.climate_cache[<<x, y>>][2]
            ELSE calculate_moisture(after, x, y)

(* System::set_season                                                      *)
set_season(season) ==
    /\ climate_system # None
    /\ climate_system' = Some([climate_system[1] EXCEPT
                                  !.current_season = season,
                                  !.climate_cache = << >>])
    /\ Called("set_season", <<season>>, None)
    /\ UNCHANGED <<chunk_vars, edited, water_manager, vegetation_system,
                   map_rules, map_generator, map_manager>>

(* The owner of a System assigns its public field current_season.          *)
assign_current_season(season) ==
    /\ climate_system # None
    /\ climate_system' = Some([climate_system[1] EXCEPT
                                  !.current_season = season])
    /\ UNCHANGED <<chunk_vars, edited, water_manager, vegetation_system,
                   map_rules, map_generator, map_manager, calls>>

(* A query goes into the log with the season in force when it was made.    *)
get_temperature(x, y) ==
    /\ climate_system # None
    /\ LET system == climate_system[1]
       IN /\ Called("get_temperature", <<system.current_season, x, y>>,
                    temperature_at(system, x, y))
          /\ climate_system' = Some(after_get_temperature(system, x, y))
    /\ UNCHANGED <<chunk_vars, edited, water_manager, vegetation_system,
                   map_rules, map_generator, map_manager>>

get_moisture(x, y) ==
    /\ climate_system # None
    /\ LET system == climate_system[1]
       IN /\ Called("get_moisture", <<system.current_season, x, y>>,
                    moisture_at(system, x, y))
          /\ climate_system' = Some(after_get_temperature(system, x, y))
    /\ UNCHANGED <<chunk_vars, edited, water_manager, vegetation_system,
                   map_rules, map_generator, map_manager>>

InitClimate ==
    /\ ChunkIdle
    /\ water_manager = None
    /\ vegetation_system = None
    /\ climate_system \in {Some(c) : c \in ClimateSystems}
    /\ map_rules = None
    /\ map_generator = None
    /\ map_manager = None
    /\ calls = << >>

NextClimate ==
    \/ \E season \in Seasons : set_season(season)
    \/ \E season \in Seasons : assign_current_season(season)
    \/ \E pos \in ClimatePositions : get_temperature(pos[1], pos[2])
    \/ \E pos \in ClimatePositions : get_moisture(pos[1], pos[2])

SpecClimate == InitClimate /\ [][NextClimate]_vars

----------------------------------------------------------------------------
(* ChunkData: three arrays indexed by y * CHUNK_SIZE + x (from 0) and the  *)
(* modified flag.  A height is counted in units; 0 is 0.0.                 *)

(* ChunkData::new                                                          *)
ChunkData_new ==
    [tiles |-> [i \in 0..(CHUNK_SIZE * CHUNK_SIZE - 1) |-> None],
     heights |-> [i \in 0..(CHUNK_SIZE * CHUNK_SIZE - 1) |-> 0],
     decorations |-> [i \in 0..(CHUNK_SIZE * CHUNK_SIZE - 1) |-> None],
     modified |-> FALSE]

(* A bounds test that lets x reach CHUNK_SIZE.                             *)
InBoundsInclusive(x, y) == x <= CHUNK_SIZE /\ y < CHUNK_SIZE

(* The bounds test of every accessor.                                      *)
InBounds(x, y) == x < CHUNK_SIZE /\ y < CHUNK_SIZE

(* ChunkData::get_tile, get_height and get_decoration                      *)
get_tile(d, x, y) ==
    IF InBounds(x, y) THEN d.tiles[y * CHUNK_SIZE + x] ELSE None

get_height(d, x, y) ==
    IF InBounds(x, y) THEN d.heights[y * CHUNK_SIZE + x] ELSE 0

get_decoration(d, x, y) ==
    IF InBounds(x, y) THEN d.decorations[y * CHUNK_SIZE + x] ELSE None

(* ChunkData::set_tile                                                     *)
set_tile_data(d, x, y, tile_type) ==
    IF InBounds(x, y)
    THEN [d EXCEPT !.tiles[y * CHUNK_SIZE + x] = Some(tile_type)]
    ELSE d

(* ChunkData::set_height                                                   *)
set_height_data(d, x, y, height) ==
    IF InBounds(x, y)
    THEN [d EXCEPT !.heights[y * CHUNK_SIZE + x] = height]
    ELSE d

(* ChunkData::add_decoration                                               *)
add_decoration_data(d, x, y, decoration_type) ==
    IF InBounds(x, y)
    THEN [d EXCEPT !.decorations[y * CHUNK_SIZE + x] = Some(decoration_type)]
    ELSE d

(* A caller applies a mutator to the ChunkData it holds.                   *)
EditUnchanged ==
    UNCHANGED <<chunks, entities, loading_queue, player_chunk, view_distance,
                memory_budget, load_budget, last_cleanup, now, next_entity,
                loads, saves, files, panicked, map_vars>>

set_tile(x, y, tile_type) ==
    /\ edited # None
    /\ edited' = Some(set_tile_data(edited[1], x, y, tile_type))
    /\ EditUnchanged

set_height(x, y, height) ==
    /\ edited # None
    /\ edited' = Some(set_height_data(edited[1], x, y, height))
    /\ EditUnchanged

add_decoration(x, y, decoration_type) ==
    /\ edited # None
    /\ edited' = Some(add_decoration_data(edited[1], x, y, decoration_type))
    /\ EditUnchanged

(* A ChunkData as generate_chunk_data returns it for a manager without a   *)
(* terrain generator (ChunkManager::default), in the hands of a caller.    *)
InitData ==
    /\ chunks = << >>
    /\ entities = << >>
    /\ loading_queue = << >>
    /\ player_chunk = None
    /\ view_distance \in ViewDistances
    /\ memory_budget = 100
    /\ load_budget = 2
    /\ last_cleanup = 0
    /\ now = 0
    /\ next_entity = 1
    /\ loads = {}
    /\ saves = {}
    /\ files = {}
    /\ panicked = FALSE
    /\ edited = Some(ChunkData_new)
    /\ MapUnused

NextData ==
    \/ \E x \in LocalXs, y \in LocalYs, t \in TileTypes : set_tile(x, y, t)
    \/ \E x \in LocalXs, y \in LocalYs, h \in HeightValues :
          set_height(x, y, h)
    \/ \E x \in LocalXs, y \in LocalYs, d \in DecorationTypes :
          add_decoration(x, y, d)

SpecData == InitData /\ [][NextData]_vars

----------------------------------------------------------------------------
(* Properties                                                              *)

(* C1: in a single tick at most load_budget coordinates start loading,     *)
(* that is, get a chunk and enter the resident table.                      *)
BudgetRespect ==
    [][Cardinality(DOMAIN chunks' \ DOMAIN chunks) <= load_budget]_vars

(* The priority the queue is sorted by: the priority of the coordinate's   *)
(* chunk, and 0 for a coordinate that has none.                            *)
queue_priority(coord, ents) == -sort_key(coord, ents)

(* C2: whenever process_loading_queue dequeues a coordinate from the       *)
(* sorted queue, no coordinate still in the queue has a strictly higher    *)
(* priority.                                                               *)
DequeueOrder ==
    [][(~UnwrapPanics /\ chunk_loading_system) =>
         LET prioritised == update_priorities(entities, loading_queue)
             sorted == sort_by_key(loading_queue, prioritised)
             n == Len(popped(sorted))
         IN \A i \in 1..n : \A j \in 1..(Len(sorted) - i) :
               queue_priority(sorted[j], prioritised) <=
                   queue_priority(sorted[Len(sorted) - i + 1], prioritised)
      ]_vars

(* C3: of two queued coordinates with equal waiting time, the one with     *)
(* the smaller Manhattan distance to the viewpoint chunk gets a priority   *)
(* greater than or equal to the other's.                                   *)
PriorityMonotone ==
    [][update_loading_priorities =>
         \A a \in DOMAIN chunks, b \in DOMAIN chunks :
            (/\ entities[chunks[a]].last_accessed =
                    entities[chunks[b]].last_accessed
             /\ manhattan_distance(a, player_chunk[1]) <
                    manhattan_distance(b, player_chunk[1]))
            => entities'[chunks[a]].priority >= entities'[chunks[b]].priority
      ]_vars

(* C4: while the viewpoint stays put, a recently accessed resident chunk   *)
(* at distance exactly view_distance + 1, in a table within memory_budget, *)
(* is not removed from the table by any tick.                              *)
EvictionHysteresis ==
    [][\A c \in DOMAIN chunks :
          (/\ player_chunk # None
           /\ player_chunk' = player_chunk
           /\ view_distance >= 1
           /\ HasChunk(c, entities)
           /\ manhattan_distance(c, player_chunk[1]) = view_distance + 1
           /\ now - entities[chunks[c]].last_accessed <= INACTIVE_LIMIT
           /\ Cardinality(DOMAIN chunks) <= memory_budget)
          => c \in DOMAIN chunks'
      ]_vars

(* C5: with view_distance 1, load_budget 2, an empty table and the         *)
(* viewpoint in chunk (0, 0), the required set is the 9 coordinates        *)
(* (-1,-1)..(1,1) and one tick leaves exactly 2 of them with a chunk in    *)
(* state Loading: (0, 0) first, then one at Manhattan distance 1.          *)
ScenarioTwoOfNine ==
    [][(/\ view_distance = 1
        /\ load_budget = 2
        /\ chunks = << >>
        /\ entities = << >>
        /\ player_chunk = Some(<<0, 0>>)
        /\ process_chunk_loading \/ chunk_loading_system)
       =>
       (/\ {get_chunks_to_load[i] : i \in 1..Len(get_chunks_to_load)} =
               (-1..1) \X (-1..1)
        /\ \E e1 \in DOMAIN entities', e2 \in DOMAIN entities' :
              /\ e1 < e2
              /\ DOMAIN entities' = {e1, e2}
              /\ entities'[e1].load_state = "Loading"
              /\ entities'[e2].load_state = "Loading"
              /\ entities'[e1].coord = <<0, 0>>
              /\ manhattan_distance(entities'[e2].coord, <<0, 0>>) = 1
              /\ chunks'[entities'[e1].coord] = e1
              /\ chunks'[entities'[e2].coord] = e2)
      ]_vars

(* The arrows of the chunk lifecycle.                                      *)
LifecycleArrow(from, to) ==
    \/ from = to
    \/ from = "Loading" /\ to = "Loaded"
    \/ from = "Loaded" /\ to = "Unloading"

(* C6: a chunk is created in state Loading, becomes Loaded only from       *)
(* Loading, and leaves the world only from state Unloading.                *)
LifecycleOrder ==
    [][/\ \A e \in DOMAIN entities' \ DOMAIN entities :
             entities'[e].load_state = "Loading"
       /\ \A e \in DOMAIN entities \cap DOMAIN entities' :
             LifecycleArrow(entities[e].load_state, entities'[e].load_state)
       /\ \A e \in DOMAIN entities \ DOMAIN entities' :
             entities[e].load_state = "Unloading"
      ]_vars

(* C7: a chunk whose load_state is Loading is never despawned or removed   *)
(* from the resident table.                                                *)
LoadingNeverEvicted ==
    [][\A c \in DOMAIN chunks :
          (HasChunk(c, entities) /\
           entities[chunks[c]].load_state = "Loading")
          => (c \in DOMAIN chunks' /\ chunks[c] \in DOMAIN entities')
      ]_vars

(* A load is still wanted when its coordinate is in the required set and   *)
(* the resident table still holds the chunk the load was started for.      *)
Wanted(l) ==
    /\ player_chunk # None
    /\ Abs(l.coord[1] - player_chunk[1][1]) <= view_distance
    /\ Abs(l.coord[2] - player_chunk[1][2]) <= view_distance
    /\ l.coord \in DOMAIN chunks
    /\ chunks[l.coord] = l.entity

OneLoadPerCoord ==
    /\ \A e1 \in DOMAIN entities, e2 \in DOMAIN entities :
          entities[e1].coord = entities[e2].coord => e1 = e2
    /\ \A l1 \in loads, l2 \in loads : l1.coord = l2.coord => l1 = l2

(* C10: a chunk with modified data is removed only when its data has been  *)
(* written to the file of its coordinate.                                  *)
PersistBeforeRemoval ==
    [][\A e \in DOMAIN entities \ DOMAIN entities' :
          (entities[e].data # None /\ entities[e].data[1].modified)
          => entities[e].coord \in files'
      ]_vars

(* C11: a ChunkData whose arrays differ from their generated content has   *)
(* modified = true.                                                        *)
ModifiedAfterMutation ==
    (/\ edited # None
     /\ \/ edited[1].tiles # ChunkData_new.tiles
        \/ edited[1].heights # ChunkData_new.heights
        \/ edited[1].decorations # ChunkData_new.decorations)
    => edited[1].modified

(* C12: whenever the resident count exceeds memory_budget, it is brought   *)
(* back to at most memory_budget later on.                                 *)
OvershootTransient ==
    (Cardinality(DOMAIN chunks) > memory_budget)
        ~> (Cardinality(DOMAIN chunks) <= memory_budget)

(* C13: when the load of a chunk that is still alive runs to its end with  *)
(* the file read and deserialized, the chunk leaves Loading: it is Loaded  *)
(* and has its ChunkData.                                                  *)
LoadingReachesLoaded ==
    [][\A l \in loads :
          (/\ l \notin loads'
           /\ load_result(l) = "Ok"
           /\ l.entity \in DOMAIN entities') =>
              /\ entities'[l.entity].load_state = "Loaded"
              /\ entities'[l.entity].data # None]_vars

(* C14: while the viewpoint stays put, the priority of a coordinate that   *)
(* stays queued does not fall from one tick to the next: it grows with the *)
(* time the coordinate has been waiting.                                   *)
PriorityGrowsWithWaiting ==
    [][(update_loading_priorities /\ player_chunk' = player_chunk) =>
         \A i \in 1..Len(loading_queue) :
            HasChunk(loading_queue[i], entities) =>
               entities'[chunks[loading_queue[i]]].priority >=
                   entities[chunks[loading_queue[i]]].priority
      ]_vars

(* C15: a chunk entity that a tick brings into the world is in state       *)
(* Loading and has no data at the end of that tick.                        *)
NeverLoadedInline ==
    [][\A e \in DOMAIN entities' \ DOMAIN entities :
          /\ entities'[e].load_state = "Loading"
          /\ entities'[e].data = None]_vars

(* C16: when the load of a chunk that is still alive ends in an error (its *)
(* file cannot be read), the chunk is Loaded with generated data all the   *)
(* same, and the program goes on.                                          *)
FailedLoadRegenerates ==
    [][\A l \in loads :
          (/\ l \notin loads'
           /\ load_result(l) = "Err"
           /\ l.entity \in DOMAIN entities) =>
              /\ ~panicked'
              /\ l.entity \in DOMAIN entities'
              /\ entities'[l.entity].load_state = "Loaded"
              /\ entities'[l.entity].data # None]_vars

(* C17: a tick of chunk_loading_system does not panic, whatever the        *)
(* viewpoint, the loading queue and the table are.                         *)
TickNeverPanics ==
    [][chunk_loading_system => ~panicked']_vars

(* The distance of the required set: the larger of |dx| and |dy|.          *)
axis_distance(a, b) ==
    IF Abs(a[1] - b[1]) > Abs(a[2] - b[2])
    THEN Abs(a[1] - b[1]) ELSE Abs(a[2] - b[2])

(* The coordinates up to two chunks beyond the view square.                *)
Around(pc) ==
    ((pc[1] - view_distance - 2)..(pc[1] + view_distance + 2)) \X
    ((pc[2] - view_distance - 2)..(pc[2] + view_distance + 2))

(* C18: with a viewpoint set, the load candidates are exactly the          *)
(* coordinates within view_distance (on each axis) of the viewpoint's      *)
(* chunk that are not resident, each listed once, and the unload           *)
(* candidates are exactly the resident coordinates farther away than       *)
(* view_distance; the two sets are disjoint; without a viewpoint both are  *)
(* empty.                                                                  *)
RequiredSet ==
    LET to_load == get_chunks_to_load
        load_set == {to_load[i] : i \in 1..Len(to_load)}
        to_unload == get_chunks_to_unload(chunks)
    IN IF player_chunk = None
       THEN to_load = << >> /\ to_unload = {}
       ELSE /\ load_set =
                 {c \in Around(player_chunk[1]) \cup DOMAIN chunks :
                     /\ axis_distance(c, player_chunk[1]) <= view_distance
                     /\ c \notin DOMAIN chunks}
            /\ Cardinality(load_set) = Len(to_load)
            /\ to_unload =
                 {c \in DOMAIN chunks :
                     axis_distance(c, player_chunk[1]) > view_distance}
            /\ load_set \cap to_unload = {}

(* A viewpoint that has moved: some chunks are wanted and not resident,    *)
(* some are resident and wanted, and some are resident and too far away.   *)
RequiredSetWitness ==
    /\ player_chunk # None
    /\ get_chunks_to_load # << >>
    /\ get_chunks_to_unload(chunks) # {}
    /\ \E c \in DOMAIN chunks :
          /\ axis_distance(c, player_chunk[1]) <= view_distance
          /\ manhattan_distance(c, player_chunk[1]) > view_distance

(* What a cleanup pass leaves behind: a coordinate gone from the table, an *)
(* entity despawned, a save started, or last_cleanup moved.                *)
CleanupHappened ==
    \/ last_cleanup' # last_cleanup
    \/ ~(DOMAIN chunks \subseteq DOMAIN chunks')
    \/ ~(DOMAIN entities \subseteq DOMAIN entities')
    \/ saves' # saves

(* C19: a tick of chunk_loading_system runs a cleanup pass only when more  *)
(* than 5 seconds have passed since the last one, and then records the     *)
(* time of the pass; a tick within 5 seconds of the last pass evicts       *)
(* nothing and leaves last_cleanup unchanged.                              *)
CleanupRateLimit ==
    [][(chunk_loading_system /\ ~panicked') =>
          /\ CleanupHappened =>
                (now - last_cleanup > 5 /\ last_cleanup' = now)
          /\ now - last_cleanup <= 5 => ~CleanupHappened
      ]_vars

(* A cleanup pass has run and has evicted a modified chunk.                *)
CleanupRateLimitWitness ==
    /\ last_cleanup > 0
    /\ saves # {}
    /\ ~panicked

(* C21: two calls of generate_river, or of generate_lake, with the same    *)
(* arguments on the same WaterManager return the same points.              *)
WaterDeterministic ==
    \A i \in 1..Len(calls), j \in 1..Len(calls) :
        (/\ calls[i].fn \in {"generate_river", "generate_lake"}
         /\ calls[i].fn = calls[j].fn
         /\ calls[i].args = calls[j].args)
        => calls[i].result = calls[j].result

(* The local coordinates outside a chunk.                                  *)
OutOfBounds ==
    {c \in LocalXs \X LocalYs : c[1] >= CHUNK_SIZE \/ c[2] >= CHUNK_SIZE}

(* C22: for x >= CHUNK_SIZE or y >= CHUNK_SIZE, get_tile and               *)
(* get_decoration return none and get_height returns 0, and set_tile,      *)
(* set_height and add_decoration leave the ChunkData as it was.            *)
OutOfBoundsNeutral ==
    [][\A c \in OutOfBounds :
          /\ get_tile(edited[1], c[1], c[2]) = None
          /\ get_height(edited[1], c[1], c[2]) = 0
          /\ get_decoration(edited[1], c[1], c[2]) = None
          /\ \A t \in TileTypes : set_tile(c[1], c[2], t) => edited' = edited
          /\ \A h \in HeightValues :
                set_height(c[1], c[2], h) => edited' = edited
          /\ \A t \in DecorationTypes :
                add_decoration(c[1], c[2], t) => edited' = edited
      ]_vars

(* A ChunkData with content in all three arrays, next to the coordinates   *)
(* outside it.                                                             *)
OutOfBoundsWitness ==
    /\ edited # None
    /\ OutOfBounds # {}
    /\ get_tile(edited[1], 31, 0) # None
    /\ get_height(edited[1], 31, 0) # 0
    /\ get_decoration(edited[1], 31, 0) # None

(* C23: an invalid configuration is rejected before any generation runs:   *)
(* no generator and no map manager is ever constructed with world seed 0,  *)
(* and no scene query is answered by rules that validate rejects.          *)
NoInvalidGenerator ==
    /\ map_generator # None => map_generator[1].world_config.seed # 0
    /\ map_manager # None => map_manager[1].seed # 0
    /\ (map_rules # None /\ validate_result(map_rules[1]) = "Err") =>
          \A i \in 1..Len(calls) : calls[i].fn # "get_possible_scenes"

(* C24: minimum scene separation: no two positions for which get_scene_at  *)
(* returned a scene are closer to each other than the generator's minimum  *)
(* scene distance.                                                         *)
SceneSeparation ==
    \A i, j \in 1..Len(calls) :
        (/\ calls[i].fn = "get_scene_at" /\ calls[j].fn = "get_scene_at"
         /\ calls[i].result # None /\ calls[j].result # None
         /\ calls[i].args # calls[j].args)
        => LET min_scene_distance ==
                   map_generator[1].scene_rules.min_scene_distance
           IN distance_squared(calls[i].args, calls[j].args) >=
                  min_scene_distance * min_scene_distance

(* C25: the vegetation gate: when the first draw of the position's stream  *)
(* exceeds density_factor, get_vegetation_at returns none whatever the     *)
(* environment; otherwise a type it returns has survivable height,         *)
(* temperature and moisture ranges that all contain the given values.      *)
Survives(system, type, height, temperature, moisture) ==
    LET compat == system.compatibility_rules[type]
    IN /\ compat.survivable_height[1] <= height
       /\ height <= compat.survivable_height[2]
       /\ compat.survivable_temperature[1] <= temperature
       /\ temperature <= compat.survivable_temperature[2]
       /\ compat.survivable_moisture[1] <= moisture
       /\ moisture <= compat.survivable_moisture[2]

VegetationGate ==
    \A i \in 1..Len(calls) :
        calls[i].fn = "get_vegetation_at" =>
            LET system == vegetation_system[1]
                a == calls[i].args
                first_draw == system.chacha[combined_seed(system.seed,
                                                          <<a[1], a[2]>>)][1]
            IN /\ first_draw > system.params.density_factor
                    => calls[i].result = None
               /\ calls[i].result # None
                    => Survives(system, calls[i].result[1], a[3], a[4], a[5])

VegetationGateWitness ==
    \E i, j \in 1..Len(calls) :
        /\ calls[i].fn = "get_vegetation_at"
        /\ calls[j].fn = "get_vegetation_at"
        /\ calls[i].result # None
        /\ calls[j].result = None
        /\ LET system == vegetation_system[1]
               a == calls[j].args
           IN /\ system.chacha[combined_seed(system.seed,
                                             <<a[1], a[2]>>)][1]
                     > system.params.density_factor
              /\ \E t \in DOMAIN system.compatibility_rules :
                     Survives(system, t, a[3], a[4], a[5])

(* C26: the waterfall precondition: generate_waterfall returns none when   *)
(* the local slope is below min_slope, whatever the height drop, and none  *)
(* when the downhill drop is below min_height, whatever the slope; a       *)
(* waterfall it returns has flow strength                                  *)
(* flow_strength * min(drop, max_height) / max_height.                     *)
LocalSlope(call) == calculate_slope(call.args[1], call.args[2], call.args[3])

HeightDrop(call) ==
    calculate_height_difference(call.args[1], call.args[2], call.args[3])

WaterfallPrecondition ==
    \A i \in 1..Len(calls) :
        calls[i].fn = "generate_waterfall" =>
            LET wp == water_manager[1].waterfall_params
                slope == LocalSlope(calls[i])
                drop == HeightDrop(calls[i])
            IN /\ slope < 2 * wp.min_slope => calls[i].result = None
               /\ drop < wp.min_height => calls[i].result = None
               /\ calls[i].result # None =>
                     calls[i].result[1].flow_strength =
                         (wp.flow_strength * Min(drop, wp.max_height) * 100)
                             \div wp.max_height

WaterfallPreconditionWitness ==
    \E i, j \in 1..Len(calls) :
        LET wp == water_manager[1].waterfall_params
        IN /\ calls[i].fn = "generate_waterfall"
           /\ calls[i].result # None
           /\ HeightDrop(calls[i]) < wp.max_height
           /\ calls[j].fn = "generate_waterfall"
           /\ calls[j].result = None
           /\ LocalSlope(calls[j]) < 2 * wp.min_slope
           /\ HeightDrop(calls[j]) >= wp.min_height

(* C27: the climate cache is invalidated on every season change: whatever  *)
(* the interleaving of queries and season changes, get_temperature and     *)
(* get_moisture return the value of the season in force at the query,      *)
(* never one computed under a previous season.                             *)
UnderSeason(season) == [climate_system[1] EXCEPT !.current_season = season]

EvictedForBudget(c) ==
    /\ c \in DOMAIN chunks
    /\ c \notin DOMAIN chunks'
    /\ now - entities[chunks[c]].last_accessed <= INACTIVE_LIMIT
    /\ manhattan_distance(c, player_chunk[1]) <= view_distance * 2

BudgetEvictsLeastActive ==
    [][(/\ chunk_loading_system
        /\ ~panicked'
        /\ last_cleanup' # last_cleanup
        /\ player_chunk # None
        /\ Cardinality(DOMAIN chunks) > memory_budget)
       =>
       /\ \A c \in DOMAIN chunks :
             EvictedForBudget(c) =>
                ~\E o \in DOMAIN chunks \cap DOMAIN chunks' :
                    entities[chunks[o]].last_accessed <
                        entities[chunks[c]].last_accessed
       /\ (/\ player_chunk[1] \in DOMAIN chunks
           /\ now - entities[chunks[player_chunk[1]]].last_accessed
                  <= INACTIVE_LIMIT)
          => player_chunk[1] \in DOMAIN chunks'
      ]_vars

(* C29: after every execution of process_chunk_loading with a viewpoint    *)
(* set, every coordinate of the resident table lies within Chebyshev       *)
(* distance view_distance of the viewpoint's chunk, however the viewpoint  *)
(* moved between the ticks.                                                *)
ResidentWithinView ==
    [][(process_chunk_loading /\ player_chunk # None) =>
          \A c \in DOMAIN chunks' :
              axis_distance(c, player_chunk[1]) <= view_distance
      ]_vars

(* The first tick ran at viewpoint (0,0) and made (-1,-1) and (0,-1)       *)
(* resident; no cleanup pass has run; the viewpoint is now at (1,0) and a  *)
(* tick there has made (2,-1) resident and removed (-1,-1).                *)
ResidentWithinViewWitness ==
    /\ player_chunk = Some(<<1, 0>>)
    /\ last_cleanup = 0
    /\ <<0, -1>> \in DOMAIN chunks
    /\ chunks[<<0, -1>>] = 2
    /\ <<2, -1>> \in DOMAIN chunks
    /\ <<-1, -1>> \notin DOMAIN chunks

(* C30: with the viewpoint fixed, a tick of process_chunk_loading adds at  *)
(* most 5 chunks and makes resident the first 5 coordinates within         *)
(* view_distance that are missing (all of them when fewer are missing), so *)
(* repeated ticks make every such coordinate resident; once they all are   *)
(* and nothing else is resident, a tick leaves the table unchanged.        *)
WithinView == {c \in Around(player_chunk[1]) :
                  axis_distance(c, player_chunk[1]) <= view_distance}

(* Every coordinate within view is resident and no other is.              *)
Settled == /\ player_chunk # None
           /\ DOMAIN chunks = WithinView

FixedViewpointConverges ==
    [][(process_chunk_loading /\ player_chunk # None) =>
          LET missing == WithinView \ DOMAIN chunks
              still_missing == WithinView \ DOMAIN chunks'
          IN /\ Cardinality(DOMAIN chunks' \ DOMAIN chunks) <= 5
             /\ Cardinality(still_missing) =
                    IF Cardinality(missing) > 5
                    THEN Cardinality(missing) - 5 ELSE 0
             /\ (missing = {} /\ DOMAIN chunks \subseteq WithinView)
                   => chunks' = chunks
      ]_vars
    /\ [](Settled => /\ get_chunks_to_load = << >>
                     /\ get_chunks_to_unload(chunks) = {})

(* Two ticks at viewpoint (0,0) have made its 9 coordinates resident, 5 in *)
(* the first tick and 4 in the second.                                     *)
FixedViewpointConvergesWitness ==
    /\ player_chunk = Some(<<0, 0>>)
    /\ WithinView \subseteq DOMAIN chunks
    /\ next_entity = 10
    /\ chunks[<<0, 0>>] = 5
    /\ chunks[<<1, 1>>] = 9

====
